---- MODULE Spec2Model ----
(***************************************************************************)
(* Learning analytics dashboard (Combined_Final_2.py and the two views it  *)
(* executes).  A handler that calls an external collaborator (the query    *)
(* agent, text-to-speech, the PDF writer, the chart library, the mail      *)
(* relay) is modelled as one step per external call: the step takes the    *)
(* collaborator's outcome as its input and runs the handler on to the next *)
(* external call or to its end.  While a handler runs (pc # "idle") no     *)
(* other user action is enabled: Streamlit runs one script at a time.      *)
(*                                                                         *)
(* Text is a sequence of tokens (strings); concatenation of text is \o.    *)
(***************************************************************************)
EXTENDS Integers, Sequences, FiniteSets, TLC

VARIABLES
    \* st.session_state of the "Learning Insights Arena" view
    last_insight, all_insights,
    \* position of the running script and its local variables
    pc, action, idx, full_summary, summary_prompt,
    \* what the running (or last) script run did: agent submissions, UI
    \* elements shown, external operations in order, mail delivery calls
    calls, shown, trail, mail,
    \* st.session_state of the "Build your own dashboard" view: the report
    \* map, the path of the assembled document, the chart-type select boxes
    report_data, final_pdf, chart_select,
    \* files of the working directory: chart images by path, the report
    chart_files, document,
    \* the widget values of the running script, and session_state as it was
    \* when the running script started
    ui, pre,
    \* the table loaded from the spreadsheet, and what render_chart last drew
    df, chart,
    \* two browser sessions of the dashboard view and the working directory
    \* they share
    sessions, disk

arenaSession == <<last_insight, all_insights>>
dashSession == <<report_data, final_pdf, chart_select>>
dashFiles == <<chart_files, document>>
dashVars == <<dashSession, dashFiles>>
runVars == <<pc, action, idx, full_summary, summary_prompt, ui, pre>>
obsVars == <<calls, shown, trail, mail>>
dataVars == <<df, chart>>
sharedVars == <<sessions, disk>>
vars == <<arenaSession, dashVars, runVars, obsVars, dataVars, sharedVars>>

----------------------------------------------------------------------------
\* Bounds of the model

\* number of catalog entries of insight_options that are modelled
CatalogLen == 2

\* number of entries of the metrics list that are modelled
NumMetrics == 2

\* metrics[:4]
AiCount == 4

\* number of delivery calls in a behaviour of SpecMail
MaxDeliveries == 2

\* rows of the tables of SpecEnrolled and of SpecMonthly
EnrolledRows == 7
MonthlyRows == 3

\* months (periods) the dates of the tables of SpecMonthly fall in
NumMonths == 3

\* nlargest(5), nsmallest(5)
TopN == 5

----------------------------------------------------------------------------
\* Data of src/Insights-Agent30.py

insight_options ==
    << [label |-> "1. Employees with 2 or more completions",
        text  |-> "Number of employees who have completed 2 or more courses."],
       [label |-> "2. Employees with 1 completion",
        text  |-> "Number of employees who have completed exactly 1 course."],
       [label |-> "3. Top 3 organizations by completion",
        text  |-> "Top 3 organization units with the highest number of completions."],
       [label |-> "4. Top 3 orgs in each country by completion",
        text  |-> "Top 3 organization units by completions in each country."],
       [label |-> "5. Bottom 3 organizations by completion",
        text  |-> "Bottom 3 organization units with the least completions."],
       [label |-> "6. Bottom 3 orgs where registration is high but completion is low",
        text  |-> "Bottom 3 orgs where registration is high but completion is low."],
       [label |-> "7. Top 3 platforms by registration and completion",
        text  |-> "Top 3 platforms with the highest registrations and completions."],
       [label |-> "8. Bottom 3 platforms where registration is high but completion is low",
        text  |-> "Bottom 3 platforms where registration is high but completion is low."],
       [label |-> "9. Top 3 employee roles by completions",
        text  |-> "Top 3 employee roles based on number of completions."],
       [label |-> "10. Split of completion by course level",
        text  |-> "Split of completions across different course levels."],
       [label |-> "11. Course level with high registration but low completion",
        text  |-> "Which course levels have high registration but low completion?"] >>

\* the catalog entries the model iterates over, in catalog order
Catalog == SubSeq(insight_options, 1, CatalogLen)

\* a session_state key that is not set
Absent == <<"<absent>">>

\* texts the query agent may answer with, and failure texts it may raise
Responses == { <<"R1">>, <<"R2">> }
Errors == { <<"Rate limit", "reached">>, <<"Connection", "error">> }
Outcomes == [ok : {TRUE}, val : Responses] \cup [ok : {FALSE}, val : Errors]

\* what the external service answers to a first submission of a prompt and
\* what it would answer to a resubmission of it
Services == [first : Outcomes, retry : Outcomes]

\* what the service answers to the prompts of the dashboard view
DashServices ==
    {svc \in Services : /\ svc.first.val \in {<<"R1">>, <<"Connection", "error">>}
                        /\ svc.retry = svc.first}

\* user input of the free-form question box ("" is the empty box)
Questions == { "", "Q1" }

\* a signature test that takes every failure for a rate-limit failure
AnyFailure(e) == TRUE

\* `"Rate limit" in str(e)`
HasRateLimit(e) == \E i \in DOMAIN e : e[i] = "Rate limit"

InsightPrompt(text) == <<"Analyze the dataset and return this insight:", text>>
\* a free-form prompt framed as the catalog prompts are
AskPromptAsInsight(q) == <<"Analyze the dataset and return this insight:", q>>

AskPrompt(q) ==
    <<"You are an AI analyst. Based on the dataset, answer the following question in 5 lines maximum:", q>>
PodcastPrompt(insight) == <<"Convert this into a 60-second podcast summary:">> \o insight
FullPodcastPrompt(all) == <<"Summarize all these insights into a 2-minute podcast:">> \o all
DailyPodcastPrompt(all) ==
    <<"Summarize the following into a podcast-style audio summary:">> \o all

Skipped(e) == <<"[Skipped due to error:">> \o e \o <<"]">>
SummaryEntry(label, result) == <<"###", label>> \o result

Show(kind, text) == [kind |-> kind, text |-> text]

\* an adapter that itself resubmits once after a rate-limit failure
run_agent_with_retry(prompt_text, model, svc) ==
    IF ~svc.first.ok /\ HasRateLimit(svc.first.val)
    THEN [ attempts |-> << [prompt |-> prompt_text, model |-> model, out |-> svc.first],
                           [prompt |-> prompt_text, model |-> model, out |-> svc.retry] >>,
           result   |-> svc.retry ]
    ELSE [ attempts |-> << [prompt |-> prompt_text, model |-> model, out |-> svc.first] >>,
           result   |-> svc.first ]

\* run_agent_on_prompt: one submission of the prompt to the agent; its
\* answer is returned unmodified and its failure is raised to the caller
run_agent_on_prompt(prompt_text, model, svc) ==
    [ attempts |-> << [prompt |-> prompt_text, model |-> model, out |-> svc.first] >>,
      result   |-> svc.first ]

----------------------------------------------------------------------------
\* The table and render_chart (src/Second_Sheet_Agent_2_6.py)

\* A row of the table.  Dates are periods (months) numbered from 1, NaT is
\* the null date; courses are numbered from 1, NoName is the null course
\* name.  The table is a sequence of rows.
NaT == 0
NoName == 0
Row(course, completion, registration) ==
    [ course |-> course, completion |-> completion, registration |-> registration,
      platform |-> "Platform A", role |-> "Role A", org |-> "Unit A" ]

NoRender == [drawn |-> "nothing"]

Min(a, b) == IF a < b THEN a ELSE b

\* column.value_counts(): the count of every value of the column, nulls left out
ValueCounts(table, column, null) ==
    LET keys == {table[i][column] : i \in DOMAIN table} \ {null}
    IN  [k \in keys |-> Cardinality({i \in DOMAIN table : table[i][column] = k})]

\* df[df["Course Completion Date"].isna()]
RECURSIVE SelectRows(_, _)
SelectRows(table, keep) ==
    IF table = <<>> THEN <<>>
    ELSE (IF keep[1] THEN <<Head(table)>> ELSE <<>>)
         \o SelectRows(Tail(table), Tail(keep))

\* a filter that also asks for a registration date
IsNaAndRegistered(table, column) ==
    [i \in DOMAIN table |-> table[i][column] = NaT /\ table[i].registration # NaT]

\* a fill that leaves out the positions without a value
DropNa(series, value) ==
    SelectRows(series, [i \in DOMAIN series |-> ~series[i].v.nan])

IsNa(table, column) == [i \in DOMAIN table |-> table[i][column] = NaT]

\* series.sort_index(): the entries by ascending key
RECURSIVE SortIndex(_)
SortIndex(f) ==
    IF DOMAIN f = {} THEN <<>>
    ELSE LET k == CHOOSE k \in DOMAIN f : \A j \in DOMAIN f : k <= j
         IN  <<[k |-> k, v |-> f[k]]>> \o SortIndex([j \in DOMAIN f \ {k} |-> f[j]])

\* the entries of the keys K by descending (ascending) count
RECURSIVE Descending(_, _)
Descending(f, K) ==
    IF K = {} THEN <<>>
    ELSE LET k == CHOOSE k \in K : \A j \in K : f[k] >= f[j]
         IN  <<[k |-> k, v |-> f[k]]>> \o Descending(f, K \ {k})

RECURSIVE Ascending(_, _)
Ascending(f, K) ==
    IF K = {} THEN <<>>
    ELSE LET k == CHOOSE k \in K : \A j \in K : f[k] <= f[j]
         IN  <<[k |-> k, v |-> f[k]]>> \o Ascending(f, K \ {k})

\* series.nlargest(n) / nsmallest(n) keep n keys of the largest / smallest
\* counts; which of several keys of equal count are kept depends on the
\* order of the rows, so every such choice is possible
NLargest(f, n) ==
    {K \in SUBSET DOMAIN f :
        /\ Cardinality(K) = Min(n, Cardinality(DOMAIN f))
        /\ \A a \in K, b \in DOMAIN f \ K : f[a] >= f[b]}
NSmallest(f, n) ==
    {K \in SUBSET DOMAIN f :
        /\ Cardinality(K) = Min(n, Cardinality(DOMAIN f))
        /\ \A a \in K, b \in DOMAIN f \ K : f[a] <= f[b]}

\* series.diff(): every value minus the value before it, and no value (NaN)
\* at the first position; fillna(0) puts 0 where there is no value
Diff(series) ==
    [i \in DOMAIN series |->
        [k |-> series[i].k,
         v |-> IF i = 1 THEN [nan |-> TRUE, x |-> 0]
                        ELSE [nan |-> FALSE, x |-> series[i].v - series[i - 1].v]]]
FillNa(series, value) ==
    [i \in DOMAIN series |->
        [k |-> series[i].k, v |-> IF series[i].v.nan THEN value ELSE series[i].v.x]]

\* .dt.month of a period
MonthOf(period) == ((period - 1) % 12) + 1
MonthColumn(table, column) ==
    [i \in DOMAIN table |->
        [m |-> IF table[i][column] = NaT THEN NaT ELSE MonthOf(table[i][column])]]

\* the keys the metric's nlargest / nsmallest may keep (one choice, the
\* empty set, for the metrics that keep everything)
Picks(metric, table) ==
    IF metric = "Top 5 courses by completion"
    THEN NLargest(ValueCounts(table, "course", NoName), TopN)
    ELSE IF metric = "Bottom 5 courses by completion"
    THEN NSmallest(ValueCounts(table, "course", NoName), TopN)
    ELSE IF metric = "Currently Enrolled"
    THEN NLargest(ValueCounts(SelectRows(table, IsNa(table, "completion")), "course", NoName),
                  TopN)
    ELSE {{}}

\* the series render_chart computes for a metric (lines 80-96)
MetricData(metric, table, pick) ==
    IF metric = "Completion by Platform"
    THEN LET f == ValueCounts(table, "platform", "") IN Descending(f, DOMAIN f)
    ELSE IF metric = "Completion by Employee Role"
    THEN LET f == ValueCounts(table, "role", "") IN Descending(f, DOMAIN f)
    ELSE IF metric = "Completion by Organization"
    THEN LET f == ValueCounts(table, "org", "") IN Descending(f, DOMAIN f)
    ELSE IF metric = "Top 5 courses by completion"
    THEN Descending(ValueCounts(table, "course", NoName), pick)
    ELSE IF metric = "Bottom 5 courses by completion"
    THEN Ascending(ValueCounts(table, "course", NoName), pick)
    ELSE IF metric = "Currently Enrolled"
    THEN Descending(ValueCounts(SelectRows(table, IsNa(table, "completion")),
                                "course", NoName), pick)
    ELSE IF metric = "Number of completions"
    THEN SortIndex(ValueCounts(MonthColumn(table, "completion"), "m", NaT))
    ELSE IF metric = "Completion variance to previous month"
    THEN FillNa(Diff(SortIndex(ValueCounts(table, "completion", NaT))), 0)
    ELSE <<>>

\* a render_chart whose trend branch goes on to the chart styles
render_chart_by_style(metric, chart_type, table, pick) ==
    LET data == IF metric = "Number of employees registered vs completed (monthly trend)"
                THEN SortIndex(ValueCounts(table, "completion", NaT))
                ELSE MetricData(metric, table, pick) IN
    [ drawn     |-> IF chart_type \in {"Bar", "Line", "Pie", "Table"}
                    THEN chart_type ELSE "nothing",
      raised    |-> chart_type = "Pie" /\ \E i \in DOMAIN data : data[i].v < 0,
      data      |-> data,
      Registered |-> <<>>,
      Completed  |-> <<>> ]

\* render_chart(metric, chart_type, ax): what is drawn on the axes, or the
\* failure of the plot (a pie of a series with a negative value)
render_chart(metric, chart_type, table, pick) ==
    IF metric = "Number of employees registered vs completed (monthly trend)"
    THEN [ drawn     |-> "DualLine",
           raised    |-> FALSE,
           data      |-> <<>>,
           Registered |-> SortIndex(ValueCounts(table, "registration", NaT)),
           Completed  |-> SortIndex(ValueCounts(table, "completion", NaT)) ]
    ELSE LET data == MetricData(metric, table, pick) IN
         [ drawn     |-> IF chart_type \in {"Bar", "Line", "Pie", "Table"}
                         THEN chart_type ELSE "nothing",
           raised    |-> chart_type = "Pie" /\ \E i \in DOMAIN data : data[i].v < 0,
           data      |-> data,
           Registered |-> <<>>,
           Completed  |-> <<>> ]

----------------------------------------------------------------------------
\* Mail delivery (both views)

NoPath == ""

\* the points at which a delivery can fail, and "none" when nothing fails
FailPoints == {"none", "getenv", "open_audio", "open_pdf", "connect", "starttls",
               "login", "sendmail"}

\* a try block that starts after the configuration has been read
GuardedAfterConfig == {"open_audio", "open_pdf", "connect", "starttls", "login", "sendmail"}

\* the steps of a delivery function that lie inside its try block
GuardedSteps == {"getenv", "open_audio", "open_pdf", "connect", "starttls",
                 "login", "sendmail"}

\* One call of a delivery function that performs `steps` in order and whose
\* environment makes step `fail` fail: the steps completed, the parts
\* attached to the message, the value returned, whether the failure left the
\* function as an exception, and the error the function displayed.
Deliver(fn, subject, steps, fail) ==
    LET k      == IF \E i \in DOMAIN steps : steps[i] = fail
                  THEN CHOOSE i \in DOMAIN steps : steps[i] = fail
                  ELSE 0
        done   == IF k = 0 THEN steps ELSE SubSeq(steps, 1, k - 1)
        Did(s) == \E i \in DOMAIN done : done[i] = s
        caught == k # 0 /\ steps[k] \in GuardedSteps
    IN  [ fn      |-> fn,
          subject |-> subject,
          steps   |-> steps,
          fail    |-> fail,
          done    |-> done,
          parts   |-> (IF Did("getenv") THEN <<"text">> ELSE <<>>)
                      \o (IF Did("open_audio") THEN <<"audio">> ELSE <<>>)
                      \o (IF Did("open_pdf") THEN <<"pdf">> ELSE <<>>),
          ret     |-> (k = 0),
          raised  |-> (k # 0 /\ ~caught),
          shown   |-> IF caught THEN <<Show("error", <<"Email Error:", fail>>)>> ELSE <<>> ]

\* a send_email_with_attachments that attaches both files whatever it is given
send_email_attaching_both(subject, body, audio_path, pdf_path, fail) ==
    Deliver("send_email_with_attachments", subject,
            <<"getenv", "open_audio", "open_pdf", "connect", "starttls", "login", "sendmail">>,
            fail)
        @@ [audio_path |-> audio_path, pdf_path |-> pdf_path]

send_email_with_attachments(subject, body, audio_path, pdf_path, fail) ==
    Deliver("send_email_with_attachments", subject,
            <<"getenv">>
            \o (IF audio_path # NoPath THEN <<"open_audio">> ELSE <<>>)
            \o (IF pdf_path # NoPath THEN <<"open_pdf">> ELSE <<>>)
            \o <<"connect", "starttls", "login", "sendmail">>,
            fail)
        @@ [audio_path |-> audio_path, pdf_path |-> pdf_path]

send_email_with_pdf(to_email, subject, body, pdf_path, fail) ==
    Deliver("send_email_with_pdf", subject,
            <<"getenv", "open_pdf", "connect", "starttls", "login", "sendmail">>,
            fail)
        @@ [audio_path |-> NoPath, pdf_path |-> pdf_path]

----------------------------------------------------------------------------
\* Data of src/Second_Sheet_Agent_2_6.py


metrics ==
    << "Currently Enrolled", "Number of completions",
       "Completion variance to previous month",
       "Number of employees registered vs completed (monthly trend)",
       "Top 5 courses by completion", "Bottom 5 courses by completion",
       "Completion by Platform", "Completion by Employee Role",
       "Completion by Organization" >>

\* the metrics a session of the model works with: the first NumMetrics
Metrics == SubSeq(metrics, 1, NumMetrics)
MetricSet == {Metrics[i] : i \in DOMAIN Metrics}

ChartTypes == <<"Bar", "Line", "Pie", "Table">>
ChartTypeSet == {ChartTypes[i] : i \in DOMAIN ChartTypes}
\* the chart types the user of the model switches between
PickedTypes == {"Bar", "Pie"}
Recurrences == {"No", "Daily", "Weekly", "Monthly"}
Modes == {"Let AI generate report", "Choose metrics manually"}
CustomTexts == {"about Q3"}
Emails == {"", "user@example.com"}

\* selected_metrics = metrics[:4] in AI mode
AiSelection == SubSeq(Metrics, 1, Min(AiCount, Len(Metrics)))

\* what st.multiselect can return: the chosen metrics in the order chosen
Selections ==
    {sel \in UNION {[1..n -> MetricSet] : n \in 0..Len(Metrics)} :
        \A i, j \in DOMAIN sel : i # j => sel[i] # sel[j]}

NoChart == <<>>
ReportPath == "final_report.pdf"

\* the widget values a script run of the dashboard view reads
NoInput == [selected |-> <<>>, custom |-> "", send |-> FALSE, email |-> "", freq |-> "No"]

ExplainPrompt(metric, custom_text) ==
    <<"Explain:", metric, "Context:", custom_text, "Keep it concise (5 lines).">>

\* gpt_suggest_insights: one submission to the agent, nothing caught
gpt_suggest_insights(prompt_text, svc) ==
    [ attempts |-> << [prompt |-> prompt_text, model |-> "gpt-3.5-turbo",
                       out |-> svc.first] >>,
      result   |-> svc.first ]

\* the report map is an insertion-ordered dict: a sequence of entries with
\* distinct metrics
HasMetric(rd, metric) == \E i \in DOMAIN rd : rd[i].metric = metric

\* st.session_state["report_data"][metric] = {"insight": .., "chart_type": "Bar"}
SetEntry(rd, metric, insight) ==
    LET e == [metric |-> metric, insight |-> insight, chart_type |-> "Bar",
              chart_path |-> NoChart]
    IN  IF HasMetric(rd, metric)
        THEN [i \in DOMAIN rd |-> IF rd[i].metric = metric THEN e ELSE rd[i]]
        ELSE Append(rd, e)

\* f"chart_{metric.replace(' ', '_')}.png"
ChartPath(metric) == <<"chart_", metric, ".png">>
ChartPaths == {ChartPath(m) : m \in MetricSet}

\* what render_chart draws for a metric and a requested chart type
DrawnKind(metric, chart_type) ==
    IF metric = "Number of employees registered vs completed (monthly trend)"
    THEN "DualLine"
    ELSE chart_type

\* an assembly that leaves out the entries without a chart path
RECURSIVE create_pdf_of_charted_entries(_, _)
create_pdf_of_charted_entries(insight_data, files) ==
    IF insight_data = <<>> THEN <<>>
    ELSE (IF Head(insight_data).chart_path # NoChart
          THEN << [ metric  |-> Head(insight_data).metric,
                    insight |-> Head(insight_data).insight,
                    image   |-> files[Head(insight_data).chart_path] ] >>
          ELSE <<>>)
         \o create_pdf_of_charted_entries(Tail(insight_data), files)

\* an assembly that places the chart file of the metric's name when there is one
create_pdf_with_found_charts(insight_data, files) ==
    [i \in DOMAIN insight_data |->
        [ metric  |-> insight_data[i].metric,
          insight |-> insight_data[i].insight,
          image   |-> files[ChartPath(insight_data[i].metric)] ] ]

\* create_pdf_report_with_charts: one section per entry, in the entries'
\* order; the image is placed when the path is set and a file exists there
create_pdf_report_with_charts(insight_data, files) ==
    [i \in DOMAIN insight_data |->
        [ metric  |-> insight_data[i].metric,
          insight |-> insight_data[i].insight,
          image   |-> IF insight_data[i].chart_path # NoChart
                         /\ files[insight_data[i].chart_path] # "none"
                      THEN files[insight_data[i].chart_path]
                      ELSE "none" ] ]

\* Two sessions of the dashboard view run the same script in one working
\* directory.  Each has its own session_state; the files are shared.
Sessions == {"A", "B"}

\* a report path that carries the session's name
ReportPathOfSession(s) == IF s = "A" THEN "final_report_A.pdf" ELSE "final_report_B.pdf"

\* the path a session's pass writes the document to: filename="final_report.pdf"
ReportPathOf(s) == ReportPath

\* the agent's answer to the calls of a session
AnswerTo(s) == IF s = "A" THEN <<"R1">> ELSE <<"R2">>

NoDocument == [sections |-> <<>>, writer |-> "nobody"]
NewSession ==
    [ report_data |-> <<>>, final_pdf |-> NoPath, pc |-> "idle", idx |-> 0,
      send |-> FALSE, sent |-> <<>> ]
EmptyDisk ==
    [ charts    |-> [p \in ChartPaths |-> "none"],
      documents |-> [p \in {ReportPathOf(s) : s \in Sessions} |-> NoDocument] ]

\* the report map of the loop of lines 145-147 over a selection
RECURSIVE GeneratedReport(_, _, _)
GeneratedReport(rd, selected_metrics, insight) ==
    IF selected_metrics = <<>> THEN rd
    ELSE GeneratedReport(SetEntry(rd, Head(selected_metrics), insight),
                         Tail(selected_metrics), insight)

\* the keys of session_state the views write, as kept while a script runs
Snapshot == <<last_insight, all_insights, report_data, final_pdf>>
NoSnapshot == <<>>

----------------------------------------------------------------------------
Init ==
    /\ last_insight = Absent
    /\ all_insights = Absent
    /\ pc = "idle"
    /\ action = "start"
    /\ idx = 0
    /\ full_summary = <<>>
    /\ summary_prompt = <<>>
    /\ calls = <<>>
    /\ shown = <<>>
    /\ trail = <<>>
    /\ mail = <<>>
    /\ report_data = <<>>
    /\ final_pdf = NoPath
    /\ chart_select = [m \in MetricSet |-> "none"]
    /\ chart_files = [f \in ChartPaths |-> "none"]
    /\ document = <<>>
    /\ ui = NoInput
    /\ pre = NoSnapshot
    /\ df = <<>>
    /\ chart = NoRender
    /\ sessions = [s \in Sessions |-> NewSession]
    /\ disk = EmptyDisk

\* a button press starts a script run: the script's variables are fresh
\* and the run's record starts empty
Begin(name, position, firstShown, i, prompt) ==
    /\ pc = "idle"
    /\ ui' = NoInput
    /\ pre' = (IF position = "idle" THEN NoSnapshot ELSE Snapshot)
    /\ pc' = position
    /\ action' = name
    /\ idx' = i
    /\ full_summary' = <<>>
    /\ summary_prompt' = prompt
    /\ calls' = <<>>
    /\ shown' = firstShown
    /\ trail' = <<>>
    /\ mail' = <<>>

\* a handler that stores whatever the call gave, the failure text included
GenerateInsightStoresAnyOutcome ==
    /\ pc = "insight_call"
    /\ \E svc \in Services :
        LET r == run_agent_on_prompt(summary_prompt, "gpt-4", svc) IN
        /\ calls' = calls \o r.attempts
        /\ trail' = trail \o [k \in DOMAIN r.attempts |-> "agent"]
        /\ shown' = IF r.result.ok
                    THEN shown \o <<Show("text_area", r.result.val),
                                    Show("download", r.result.val)>>
                    ELSE Append(shown, Show("error", <<"Error:">> \o r.result.val))
        /\ last_insight' = r.result.val
    /\ pc' = "idle"
    /\ pre' = NoSnapshot
    /\ UNCHANGED <<sharedVars, dataVars, dashVars, ui, all_insights, action, idx, full_summary,
                   summary_prompt, mail>>

\* ---- "Generate Insight" ------------------------------------------------
PressGenerateInsight ==
    \E i \in DOMAIN Catalog :
        /\ Begin("Generate Insight", "insight_call",
                 <<Show("info", <<"Generating insight with GPT-4...">>)>>,
                 i, InsightPrompt(Catalog[i].text))
        /\ UNCHANGED <<sharedVars, dataVars, dashVars, arenaSession>>

GenerateInsightReturn ==
    /\ pc = "insight_call"
    /\ \E svc \in Services :
        LET r == run_agent_on_prompt(summary_prompt, "gpt-4", svc) IN
        /\ calls' = calls \o r.attempts
        /\ trail' = trail \o [k \in DOMAIN r.attempts |-> "agent"]
        /\ IF r.result.ok
           THEN /\ shown' = shown \o <<Show("text_area", r.result.val),
                                       Show("download", r.result.val)>>
                /\ last_insight' = r.result.val
           ELSE /\ shown' = Append(shown, Show("error", <<"Error:">> \o r.result.val))
                /\ UNCHANGED last_insight
    /\ pc' = "idle"
    /\ UNCHANGED <<sharedVars, dataVars, dashVars, ui, all_insights, action, idx, full_summary, summary_prompt, mail>>
    /\ pre' = (IF pc' = "idle" THEN NoSnapshot ELSE pre)

\* ---- "Generate Podcast" (shown once last_insight is set) ----------------
PressGeneratePodcast ==
    /\ last_insight # Absent
    /\ Begin("Generate Podcast", "podcast_call", <<>>, 0, PodcastPrompt(last_insight))
    /\ UNCHANGED <<sharedVars, dataVars, dashVars, arenaSession>>

PodcastReturn ==
    /\ pc = "podcast_call"
    /\ \E svc \in Services :
        LET r == run_agent_on_prompt(summary_prompt, "gpt-4", svc) IN
        /\ calls' = calls \o r.attempts
        /\ trail' = trail \o [k \in DOMAIN r.attempts |-> "agent"]
        /\ IF r.result.ok
           THEN /\ pc' = "podcast_tts"
                /\ UNCHANGED shown
           ELSE /\ pc' = "idle"
                /\ shown' = Append(shown, Show("error", <<"Podcast error:">> \o r.result.val))
    /\ UNCHANGED <<sharedVars, dataVars, dashVars, ui, arenaSession, action, idx, full_summary, summary_prompt, mail>>
    /\ pre' = (IF pc' = "idle" THEN NoSnapshot ELSE pre)

\* text_to_speech(podcast_text, "podcast_individual.mp3"), then st.audio
PodcastTtsReturn ==
    /\ pc = "podcast_tts"
    /\ \E ok \in BOOLEAN :
        /\ trail' = Append(trail, "tts")
        /\ shown' = IF ok
                    THEN shown \o <<Show("audio", <<"podcast_individual.mp3">>),
                                    Show("success", <<"Podcast ready.">>)>>
                    ELSE Append(shown, Show("error", <<"Podcast error:", "tts">>))
    /\ pc' = "idle"
    /\ UNCHANGED <<sharedVars, dataVars, dashVars, ui, arenaSession, action, idx, full_summary, summary_prompt, calls, mail>>
    /\ pre' = (IF pc' = "idle" THEN NoSnapshot ELSE pre)

\* ---- "Generate All" ----------------------------------------------------
\* one pass of the loop body over insight_options.items(): the result of
\* the item's agent call, or the placeholder, is appended under its label
BatchItemDropFailed(summary, label, out) ==
    IF out.ok THEN summary \o SummaryEntry(label, out.val) ELSE summary

BatchItem(summary, label, out) ==
    summary \o SummaryEntry(label, IF out.ok THEN out.val ELSE Skipped(out.val))

PressGenerateAll ==
    /\ Begin("Generate All", "all_call", <<>>, 1, <<>>)
    /\ UNCHANGED <<sharedVars, dataVars, dashVars, arenaSession>>

GenerateAllItemReturn ==
    /\ pc = "all_call"
    /\ \E svc \in Services :
        LET r  == run_agent_on_prompt(InsightPrompt(Catalog[idx].text), "gpt-3.5-turbo", svc)
            fs == BatchItem(full_summary, Catalog[idx].label, r.result)
        IN
        /\ calls' = calls \o r.attempts
        /\ trail' = trail \o [k \in DOMAIN r.attempts |-> "agent"]
        /\ full_summary' = fs
        /\ IF idx < Len(Catalog)
           THEN /\ idx' = idx + 1
                /\ UNCHANGED <<pc, shown, all_insights>>
           ELSE /\ shown' = shown \o <<Show("text_area", fs), Show("download", fs)>>
                /\ all_insights' = fs
                /\ pc' = "idle"
                /\ UNCHANGED idx
    /\ UNCHANGED <<sharedVars, dataVars, dashVars, ui, last_insight, action, summary_prompt, mail>>
    /\ pre' = (IF pc' = "idle" THEN NoSnapshot ELSE pre)

\* ---- "Generate Full Podcast" (shown once all_insights is set) -----------
PressGenerateFullPodcast ==
    /\ all_insights # Absent
    /\ Begin("Generate Full Podcast", "fullpod_call", <<>>, 0,
             FullPodcastPrompt(all_insights))
    /\ UNCHANGED <<sharedVars, dataVars, dashVars, arenaSession>>

FullPodcastReturn ==
    /\ pc = "fullpod_call"
    /\ \E svc \in Services :
        LET r == run_agent_on_prompt(summary_prompt, "gpt-4", svc) IN
        /\ calls' = calls \o r.attempts
        /\ trail' = trail \o [k \in DOMAIN r.attempts |-> "agent"]
        /\ IF r.result.ok
           THEN /\ pc' = "fullpod_tts"
                /\ UNCHANGED shown
           ELSE /\ pc' = "idle"
                /\ shown' = Append(shown, Show("error", <<"Podcast error:">> \o r.result.val))
    /\ UNCHANGED <<sharedVars, dataVars, dashVars, ui, arenaSession, action, idx, full_summary, summary_prompt, mail>>
    /\ pre' = (IF pc' = "idle" THEN NoSnapshot ELSE pre)

FullPodcastTtsReturn ==
    /\ pc = "fullpod_tts"
    /\ \E ok \in BOOLEAN :
        /\ trail' = Append(trail, "tts")
        /\ shown' = IF ok
                    THEN shown \o <<Show("audio", <<"full_podcast.mp3">>),
                                    Show("success", <<"Podcast ready.">>)>>
                    ELSE Append(shown, Show("error", <<"Podcast error:", "tts">>))
    /\ pc' = "idle"
    /\ UNCHANGED <<sharedVars, dataVars, dashVars, ui, arenaSession, action, idx, full_summary, summary_prompt, calls, mail>>
    /\ pre' = (IF pc' = "idle" THEN NoSnapshot ELSE pre)

\* ---- "Ask AI" ----------------------------------------------------------
PressAskAI ==
    \E user_q \in Questions :
        IF user_q # ""
        THEN /\ Begin("Ask AI", "ask_first", <<Show("info", <<"Using GPT-4...">>)>>,
                      0, AskPrompt(user_q))
             /\ UNCHANGED <<sharedVars, dataVars, dashVars, arenaSession>>
        ELSE /\ Begin("Ask AI", "idle", <<Show("warning", <<"Please enter a question.">>)>>,
                      0, <<>>)
             /\ UNCHANGED <<sharedVars, dataVars, dashVars, arenaSession>>

\* the first attempt returns: an answer is displayed, a rate-limit failure
\* leads to the wait and the second attempt, any other failure is re-raised
\* to the outer handler
AskFirstReturn ==
    /\ pc = "ask_first"
    /\ \E svc \in Services :
        LET r == run_agent_on_prompt(summary_prompt, "gpt-4", svc) IN
        /\ calls' = calls \o r.attempts
        /\ IF r.result.ok
           THEN /\ shown' = shown \o <<Show("text_area", r.result.val),
                                       Show("download", r.result.val)>>
                /\ trail' = trail \o [k \in DOMAIN r.attempts |-> "agent"]
                /\ pc' = "idle"
           ELSE IF HasRateLimit(r.result.val)
           THEN /\ shown' = Append(shown,
                                   Show("warning", <<"Rate limit hit. Waiting 20 seconds...">>))
                /\ trail' = trail \o [k \in DOMAIN r.attempts |-> "agent"] \o <<"sleep(20)">>
                /\ pc' = "ask_retry"
           ELSE /\ shown' = Append(shown,
                                   Show("error", <<"Smart Q&A Error:">> \o r.result.val))
                /\ trail' = trail \o [k \in DOMAIN r.attempts |-> "agent"]
                /\ pc' = "idle"
    /\ UNCHANGED <<sharedVars, dataVars, dashVars, ui, arenaSession, action, idx, full_summary, summary_prompt, mail>>
    /\ pre' = (IF pc' = "idle" THEN NoSnapshot ELSE pre)

\* a second attempt that goes back to waiting when it is rate-limited again
AskRetryAgain ==
    /\ pc = "ask_retry"
    /\ \E svc \in Services :
        LET r == run_agent_on_prompt(summary_prompt, "gpt-4", svc) IN
        /\ calls' = calls \o r.attempts
        /\ trail' = trail \o [k \in DOMAIN r.attempts |-> "agent"]
        /\ IF r.result.ok
           THEN /\ shown' = shown \o <<Show("text_area", r.result.val),
                                       Show("download", r.result.val)>>
                /\ pc' = "idle"
           ELSE IF HasRateLimit(r.result.val) /\ Len(calls) < 3
           THEN /\ UNCHANGED <<shown, pc>>
           ELSE /\ shown' = Append(shown,
                                   Show("error", <<"Smart Q&A Error:">> \o r.result.val))
                /\ pc' = "idle"
    /\ UNCHANGED <<sharedVars, dataVars, dashVars, ui, arenaSession, action, idx, full_summary, summary_prompt, mail>>
    /\ pre' = (IF pc' = "idle" THEN NoSnapshot ELSE pre)

AskRetryReturn ==
    /\ pc = "ask_retry"
    /\ \E svc \in Services :
        LET r == run_agent_on_prompt(summary_prompt, "gpt-4", svc) IN
        /\ calls' = calls \o r.attempts
        /\ trail' = trail \o [k \in DOMAIN r.attempts |-> "agent"]
        /\ shown' = IF r.result.ok
                    THEN shown \o <<Show("text_area", r.result.val),
                                    Show("download", r.result.val)>>
                    ELSE Append(shown, Show("error", <<"Smart Q&A Error:">> \o r.result.val))
    /\ pc' = "idle"
    /\ UNCHANGED <<sharedVars, dataVars, dashVars, ui, arenaSession, action, idx, full_summary, summary_prompt, mail>>
    /\ pre' = (IF pc' = "idle" THEN NoSnapshot ELSE pre)

\* ---- "Send Email Now": daily_auto_email() --------------------------------
PressSendEmailNow ==
    /\ Begin("Send Email Now", "daily_batch", <<>>, 1, <<>>)
    /\ UNCHANGED <<sharedVars, dataVars, dashVars, arenaSession>>

\* the batch loop; after the last item the summary is written to
\* auto_insights.txt and the podcast prompt is submitted
DailyItemReturn ==
    /\ pc = "daily_batch"
    /\ \E svc \in Services :
        LET r  == run_agent_on_prompt(InsightPrompt(Catalog[idx].text), "gpt-3.5-turbo", svc)
            fs == BatchItem(full_summary, Catalog[idx].label, r.result)
        IN
        /\ calls' = calls \o r.attempts
        /\ trail' = trail \o [k \in DOMAIN r.attempts |-> "agent"]
        /\ full_summary' = fs
        /\ IF idx < Len(Catalog)
           THEN /\ idx' = idx + 1
                /\ UNCHANGED <<pc, summary_prompt, shown>>
           ELSE \* the summary is written to auto_insights.txt (lines 113-114)
                \E written \in BOOLEAN :
                    /\ summary_prompt' = DailyPodcastPrompt(fs)
                    /\ pc' = IF written THEN "daily_podcast" ELSE "idle"
                    /\ shown' = IF written THEN shown
                                ELSE Append(shown, Show("error",
                                         <<"Auto email error:", "auto_insights.txt">>))
                    /\ UNCHANGED idx
    /\ UNCHANGED <<sharedVars, dataVars, dashVars, ui, arenaSession, action, mail>>
    /\ pre' = (IF pc' = "idle" THEN NoSnapshot ELSE pre)

DailyPodcastReturn ==
    /\ pc = "daily_podcast"
    /\ \E svc \in Services :
        LET r == run_agent_on_prompt(summary_prompt, "gpt-4", svc) IN
        /\ calls' = calls \o r.attempts
        /\ trail' = trail \o [k \in DOMAIN r.attempts |-> "agent"]
        /\ IF r.result.ok
           THEN /\ pc' = "daily_tts"
                /\ UNCHANGED shown
           ELSE /\ pc' = "idle"
                /\ shown' = Append(shown,
                                   Show("error", <<"Auto email error:">> \o r.result.val))
    /\ UNCHANGED <<sharedVars, dataVars, dashVars, ui, arenaSession, action, idx, full_summary, summary_prompt, mail>>
    /\ pre' = (IF pc' = "idle" THEN NoSnapshot ELSE pre)

\* a daily flow that goes from the narration straight to the send
DailyTtsThenSend ==
    /\ pc = "daily_tts"
    /\ trail' = Append(trail, "tts")
    /\ pc' = "daily_send"
    /\ UNCHANGED <<sharedVars, dataVars, dashVars, ui, arenaSession, action, idx, full_summary,
                   summary_prompt, calls, mail, shown, pre>>

\* text_to_speech(podcast_text, "auto_podcast.mp3")
DailyTtsReturn ==
    /\ pc = "daily_tts"
    /\ \E ok \in BOOLEAN :
        /\ trail' = Append(trail, "tts")
        /\ IF ok
           THEN /\ pc' = "daily_pdf"
                /\ UNCHANGED shown
           ELSE /\ pc' = "idle"
                /\ shown' = Append(shown, Show("error", <<"Auto email error:", "tts">>))
    /\ UNCHANGED <<sharedVars, dataVars, dashVars, ui, arenaSession, action, idx, full_summary, summary_prompt, calls, mail>>
    /\ pre' = (IF pc' = "idle" THEN NoSnapshot ELSE pre)

\* generate_pdf_from_text(full_summary)
DailyPdfReturn ==
    /\ pc = "daily_pdf"
    /\ \E ok \in BOOLEAN :
        /\ trail' = Append(trail, "pdf")
        /\ IF ok
           THEN /\ pc' = "daily_send"
                /\ UNCHANGED shown
           ELSE /\ pc' = "idle"
                /\ shown' = Append(shown, Show("error", <<"Auto email error:", "pdf">>))
    /\ UNCHANGED <<sharedVars, dataVars, dashVars, ui, arenaSession, action, idx, full_summary, summary_prompt, calls, mail>>
    /\ pre' = (IF pc' = "idle" THEN NoSnapshot ELSE pre)

DailySendReturn ==
    /\ pc = "daily_send"
    /\ \E fail \in FailPoints :
        LET r == send_email_with_attachments(
                     <<"Daily Course Insights">>,
                     <<"Attached are your latest daily insights and podcast summary.">>,
                     "auto_podcast.mp3", "auto_insights.pdf", fail)
        IN
        /\ mail' = Append(mail, r)
        /\ trail' = Append(trail, "send")
        /\ shown' = shown \o r.shown \o
                    (IF r.raised
                     THEN <<Show("error", <<"Auto email error:", fail>>)>>
                     ELSE IF r.ret
                     THEN <<Show("success", <<"Email sent successfully.">>)>>
                     ELSE <<Show("error", <<"Email failed.">>)>>)
    /\ pc' = "idle"
    /\ UNCHANGED <<sharedVars, dataVars, dashVars, ui, arenaSession, action, idx, full_summary, summary_prompt, calls>>
    /\ pre' = (IF pc' = "idle" THEN NoSnapshot ELSE pre)

ArenaNext ==
    \/ PressGenerateInsight
    \/ GenerateInsightReturn
    \/ PressGeneratePodcast
    \/ PodcastReturn
    \/ PodcastTtsReturn
    \/ PressGenerateAll
    \/ GenerateAllItemReturn
    \/ PressGenerateFullPodcast
    \/ FullPodcastReturn
    \/ FullPodcastTtsReturn
    \/ PressAskAI
    \/ AskFirstReturn
    \/ AskRetryReturn
    \/ PressSendEmailNow
    \/ DailyItemReturn
    \/ DailyPodcastReturn
    \/ DailyTtsReturn
    \/ DailyPdfReturn
    \/ DailySendReturn

----------------------------------------------------------------------------
\* The "Build your own dashboard" view.  Every interaction reruns the whole
\* script: the pressed button's handler, then the pass over report_data
\* (lines 149-177), then the email section (lines 179-191).

\* the last run stopped at an exception nobody caught: Streamlit shows the
\* exception in place of the rest of the page
Aborted == \E i \in DOMAIN shown : shown[i].kind = "exception"

\* widget state is kept for the widgets a completed run has rendered
KeptWidgets(cs, rd) == [m \in MetricSet |-> IF HasMetric(rd, m) THEN cs[m] ELSE "none"]

\* an email section that sends whenever a document is there
EmailPcWithoutPress(fp, u) ==
    IF fp # NoPath THEN "dash_send" ELSE "idle"

\* the email section of a run: where the script goes and what it shows
EmailPc(fp, u) ==
    IF fp # NoPath /\ u.send /\ u.email # "" THEN "dash_send" ELSE "idle"
EmailShown(fp, u) ==
    IF fp # NoPath /\ u.send /\ u.email = ""
    THEN <<Show("warning", <<"Enter a valid email.">>)>>
    ELSE <<>>

\* a run in which no handler calls the agent: with an empty report map the
\* pass is skipped and the script is at its email section
RunWithoutHandler(name, u, firstShown) ==
    /\ pc = "idle"
    /\ action' = name
    /\ ui' = u
    /\ pre' = (IF report_data = <<>> /\ EmailPc(final_pdf, u) = "idle"
               THEN NoSnapshot ELSE Snapshot)
    /\ idx' = 1
    /\ full_summary' = <<>>
    /\ summary_prompt' = <<>>
    /\ calls' = <<>>
    /\ trail' = <<>>
    /\ mail' = <<>>
    /\ IF report_data # <<>>
       THEN /\ pc' = "render"
            /\ shown' = firstShown
            /\ UNCHANGED chart_select
       ELSE /\ pc' = EmailPc(final_pdf, u)
            /\ shown' = firstShown \o EmailShown(final_pdf, u)
            /\ chart_select' = KeptWidgets(chart_select, <<>>)
    /\ UNCHANGED <<sharedVars, dataVars, arenaSession, report_data, final_pdf, dashFiles>>

\* a handler that goes on with the report map it finds
KeptReport(rd) == rd

\* st.session_state["report_data"] = {}
FreshReport(rd) == <<>>

\* ---- "Generate Insights & Charts" ---------------------------------------
PressGenerateInsightsAndCharts ==
    \E mode \in Modes, sel \in Selections, custom_text \in CustomTexts :
        LET selected_metrics == IF mode = "Let AI generate report" THEN AiSelection ELSE sel
            u == [NoInput EXCEPT !.selected = selected_metrics, !.custom = custom_text]
        IN
        IF selected_metrics = <<>>
        THEN RunWithoutHandler("Generate Insights & Charts", u,
                 <<Show("warning", <<"Please select metrics or switch to AI mode.">>)>>)
        ELSE /\ pc = "idle"
             /\ action' = "Generate Insights & Charts"
             /\ ui' = u
             /\ pre' = Snapshot
             /\ report_data' = FreshReport(report_data)
             /\ pc' = "gen_call"
             /\ idx' = 1
             /\ full_summary' = <<>>
             /\ summary_prompt' = <<>>
             /\ calls' = <<>>
             /\ shown' = <<>>
             /\ trail' = <<>>
             /\ mail' = <<>>
             /\ UNCHANGED <<sharedVars, dataVars, arenaSession, final_pdf, chart_select, dashFiles>>

\* the agent call of one selected metric returns; a failure is caught by
\* nobody and ends the run
GenerateCallReturn ==
    /\ pc = "gen_call"
    /\ \E svc \in DashServices :
        LET metric == ui.selected[idx]
            r == gpt_suggest_insights(ExplainPrompt(metric, ui.custom), svc)
        IN
        /\ calls' = calls \o r.attempts
        /\ trail' = trail \o [k \in DOMAIN r.attempts |-> "agent"]
        /\ IF r.result.ok
           THEN /\ report_data' = SetEntry(report_data, metric, r.result.val)
                /\ UNCHANGED shown
                /\ IF idx < Len(ui.selected)
                   THEN /\ idx' = idx + 1
                        /\ UNCHANGED pc
                   ELSE /\ idx' = 1
                        /\ pc' = "render"
           ELSE /\ shown' = Append(shown, Show("exception", r.result.val))
                /\ pc' = "idle"
                /\ UNCHANGED <<report_data, idx>>
    /\ UNCHANGED <<sharedVars, dataVars, arenaSession, final_pdf, chart_select, dashFiles, action,
                   full_summary, summary_prompt, ui, mail>>
    /\ pre' = (IF pc' = "idle" THEN NoSnapshot ELSE pre)

\* ---- the pass over report_data -----------------------------------------
\* a pass whose chart failures are not caught
ChartFailureUncaught == FALSE

\* the try/except around render_chart and savefig catches every failure
ChartFailureCaught == TRUE

\* One metric of the pass: the select box gives the chart type (its kept
\* value, else the entry's), the chart is rendered and saved or the failure
\* is shown; after the last metric the report is assembled and stored.
RenderReturn ==
    /\ pc = "render"
    /\ \E ok \in BOOLEAN :
        LET metric     == report_data[idx].metric
            chart_type == IF chart_select[metric] # "none"
                          THEN chart_select[metric]
                          ELSE report_data[idx].chart_type
            chart_path == ChartPath(metric)
            files == IF ok
                     THEN [chart_files EXCEPT ![chart_path] = DrawnKind(metric, chart_type)]
                     ELSE chart_files
            rd    == [report_data EXCEPT
                         ![idx].chart_type = chart_type,
                         ![idx].chart_path = IF ok THEN chart_path ELSE @]
            out   == IF ok
                     THEN Show("image", chart_path)
                     ELSE Show("error", <<"Chart generation failed for", metric>>)
        IN
        /\ report_data' = rd
        /\ chart_files' = files
        /\ trail' = Append(trail, "chart")
        /\ IF ~ok /\ ~ChartFailureCaught
           THEN /\ shown' = Append(shown, Show("exception", <<"chart", metric>>))
                /\ pc' = "idle"
                /\ UNCHANGED <<idx, chart_select, document, final_pdf>>
           ELSE IF idx < Len(report_data)
           THEN /\ idx' = idx + 1
                /\ chart_select' = [chart_select EXCEPT ![metric] = chart_type]
                /\ shown' = Append(shown, out)
                /\ UNCHANGED <<pc, document, final_pdf>>
           ELSE /\ document' = create_pdf_report_with_charts(rd, files)
                /\ final_pdf' = ReportPath
                /\ chart_select' =
                       KeptWidgets([chart_select EXCEPT ![metric] = chart_type], rd)
                /\ shown' = shown \o <<out, Show("download", <<ReportPath>>)>>
                            \o EmailShown(ReportPath, ui)
                /\ pc' = EmailPc(ReportPath, ui)
                /\ UNCHANGED idx
    /\ UNCHANGED <<sharedVars, dataVars, arenaSession, action, full_summary, summary_prompt, ui,
                   calls, mail>>
    /\ pre' = (IF pc' = "idle" THEN NoSnapshot ELSE pre)

\* ---- "Send Email" -------------------------------------------------------
\* the button is on the page when the last run reached the email section
PressSendEmail ==
    /\ final_pdf # NoPath
    /\ ~Aborted
    /\ \E email \in Emails, freq \in Recurrences :
        RunWithoutHandler("Send Email",
            [NoInput EXCEPT !.send = TRUE, !.email = email, !.freq = freq], <<>>)

DashSendReturn ==
    /\ pc = "dash_send"
    /\ \E fail \in FailPoints :
        LET sent == send_email_with_pdf(ui.email, <<"AI Report">>,
                                        <<"Find your report attached.">>, final_pdf, fail)
        IN
        /\ mail' = Append(mail, sent)
        /\ trail' = Append(trail, "send")
        /\ shown' = shown \o sent.shown \o
                    (IF sent.raised
                     THEN <<Show("exception", <<fail>>)>>
                     ELSE IF sent.ret
                     THEN <<Show("success", <<"Email sent.">>)>>
                          \o (IF ui.freq # "No"
                              THEN <<Show("info", <<"Scheduled for", ui.freq,
                                                    "(Scheduler backend required.)">>)>>
                              ELSE <<>>)
                     ELSE <<>>)
    /\ pc' = "idle"
    /\ UNCHANGED <<sharedVars, dataVars, arenaSession, dashVars, action, idx, full_summary, summary_prompt,
                   ui, calls>>
    /\ pre' = (IF pc' = "idle" THEN NoSnapshot ELSE pre)

\* ---- other interactions -------------------------------------------------
\* the user picks another chart type in a select box that is on the page
ChangeChartType ==
    /\ pc = "idle"
    /\ ~Aborted
    /\ \E m \in MetricSet, t \in PickedTypes :
        /\ HasMetric(report_data, m)
        /\ chart_select[m] # "none"
        /\ chart_select[m] # t
        /\ chart_select' = [chart_select EXCEPT ![m] = t]
    /\ action' = "Change chart type"
    /\ ui' = NoInput
    /\ pre' = Snapshot
    /\ pc' = "render"
    /\ idx' = 1
    /\ full_summary' = <<>>
    /\ summary_prompt' = <<>>
    /\ calls' = <<>>
    /\ shown' = <<>>
    /\ trail' = <<>>
    /\ mail' = <<>>
    /\ UNCHANGED <<sharedVars, dataVars, arenaSession, report_data, final_pdf, dashFiles>>

\* any other widget interaction (mode, selection, text) reruns the script
Rerun ==
    RunWithoutHandler("Rerun", NoInput, <<>>)

DashNext ==
    \/ PressGenerateInsightsAndCharts
    \/ GenerateCallReturn
    \/ RenderReturn
    \/ PressSendEmail
    \/ DashSendReturn
    \/ ChangeChartType
    \/ Rerun

SpecDash == Init /\ [][DashNext]_vars

SpecArena == Init /\ [][ArenaNext]_vars

----------------------------------------------------------------------------
\* The delivery functions on their own: each step applies one of them to
\* arguments and to a failure point drawn from the sets below.

AudioPaths == {NoPath, "summary.mp3"}
PdfPaths == {NoPath, "auto_insights.pdf"}

CallSendEmailWithAttachments ==
    /\ Len(mail) < MaxDeliveries
    /\ \E audio_path \in AudioPaths, pdf_path \in PdfPaths, fail \in FailPoints :
        mail' = Append(mail, send_email_with_attachments(<<"subject">>, <<"body">>,
                                                         audio_path, pdf_path, fail))
    /\ UNCHANGED <<sharedVars, dataVars, arenaSession, dashVars, runVars, calls, shown, trail>>

CallSendEmailWithPdf ==
    /\ Len(mail) < MaxDeliveries
    /\ \E to_email \in Emails \ {""}, fail \in FailPoints :
        mail' = Append(mail, send_email_with_pdf(to_email, <<"AI Report">>,
                                                 <<"Find your report attached.">>,
                                                 ReportPath, fail))
    /\ UNCHANGED <<sharedVars, dataVars, arenaSession, dashVars, runVars, calls, shown, trail>>

MailNext ==
    \/ CallSendEmailWithAttachments
    \/ CallSendEmailWithPdf

SpecMail == Init /\ [][MailNext]_vars

----------------------------------------------------------------------------
\* render_chart on its own: the table is loaded row by row, then charts are
\* rendered from it.  No computed value depends on the order of the rows or
\* on which course has which number, the kept keys of equal count excepted,
\* and those are chosen freely.  So the rows are loaded in one order (by
\* course, then completion, then registration) and the courses are numbered
\* in the order of their first rows.

DatesLeq(a, b) ==
    \/ a.completion < b.completion
    \/ a.completion = b.completion /\ a.registration <= b.registration

FirstRowOf(course) ==
    df[CHOOSE i \in DOMAIN df :
          df[i].course = course /\ \A j \in 1..(i - 1) : df[j].course # course]

LoadRow(row) ==
    /\ chart = NoRender
    /\ df = <<>> => row.course <= 1
    /\ df # <<>> =>
          LET last == df[Len(df)] IN
          \/ row.course = last.course /\ DatesLeq(last, row)
          \/ /\ row.course = last.course + 1
             /\ last.course # NoName => DatesLeq(FirstRowOf(last.course), row)
    /\ df' = Append(df, row)
    /\ UNCHANGED <<chart, arenaSession, dashVars, runVars, obsVars, sharedVars>>

\* tables of many courses whose rows are completed or not, registered or not
LoadEnrolledRow ==
    /\ Len(df) < EnrolledRows
    /\ \E c \in 0..(TopN + 1), completion \in {NaT, 1}, registration \in {NaT, 1} :
        LoadRow(Row(c, completion, registration))

\* tables of one course whose dates fall in several months
LoadMonthlyRow ==
    /\ Len(df) < MonthlyRows
    /\ \E completion \in 0..NumMonths, registration \in 0..NumMonths :
        LoadRow(Row(1, completion, registration))

RenderChart(metric, chart_type) ==
    /\ \E pick \in Picks(metric, df) :
        chart' = render_chart(metric, chart_type, df, pick)
                    @@ [metric |-> metric, chart_type |-> chart_type]
    /\ UNCHANGED <<df, arenaSession, dashVars, runVars, obsVars, sharedVars>>

RenderEnrolled ==
    \E chart_type \in {"Bar", "Table"} : RenderChart("Currently Enrolled", chart_type)

RenderMonthly ==
    \E metric \in {"Number of completions", "Completion variance to previous month",
                   "Number of employees registered vs completed (monthly trend)"},
       chart_type \in ChartTypeSet :
        RenderChart(metric, chart_type)

EnrolledNext ==
    \/ LoadEnrolledRow
    \/ RenderEnrolled

MonthlyNext ==
    \/ LoadMonthlyRow
    \/ RenderMonthly

SpecEnrolled == Init /\ [][EnrolledNext]_vars
SpecMonthly == Init /\ [][MonthlyNext]_vars

----------------------------------------------------------------------------
\* Two sessions in one working directory.  A session's script run is a
\* thread of its own, so the runs of two sessions interleave between any
\* two file operations: the savefig of a chart, the output of the document,
\* the open of the document by the send.  Both sessions are in the mode
\* "Let AI generate report"; the agent answers every call of these runs,
\* with one text to session A and another to session B, and each session
\* keeps the chart style "Bar".

Session(s) == sessions[s]
SessionUnchanged == UNCHANGED <<arenaSession, dashVars, runVars, obsVars, dataVars>>

\* "Generate Insights & Charts" in session s: the handler (lines 140-147)
SessGenerate(s) ==
    /\ Session(s).pc = "idle"
    /\ sessions' = [sessions EXCEPT
            ![s].report_data = GeneratedReport(FreshReport(@), AiSelection, AnswerTo(s)),
            ![s].pc = "render",
            ![s].idx = 1,
            ![s].send = FALSE,
            ![s].sent = <<>>]
    /\ UNCHANGED disk
    /\ SessionUnchanged

\* any other interaction in session s reruns its script; "Send Email" is on
\* the page when final_pdf is set
SessRun(s, send) ==
    /\ Session(s).pc = "idle"
    /\ send => Session(s).final_pdf # NoPath
    /\ Session(s).report_data # <<>> \/ send
    /\ sessions' = [sessions EXCEPT
            ![s].pc = IF Session(s).report_data # <<>> THEN "render" ELSE "send",
            ![s].idx = 1,
            ![s].send = send,
            ![s].sent = <<>>]
    /\ UNCHANGED disk
    /\ SessionUnchanged

SessRerun(s) == SessRun(s, FALSE)
SessPressSendEmail(s) == SessRun(s, TRUE)

\* one metric of the pass of session s (lines 150-171)
SessRender(s) ==
    /\ Session(s).pc = "render"
    /\ \E ok \in BOOLEAN :
        LET i          == Session(s).idx
            metric     == Session(s).report_data[i].metric
            chart_type == Session(s).report_data[i].chart_type
            chart_path == ChartPath(metric)
        IN
        /\ disk' = IF ok
                   THEN [disk EXCEPT !.charts[chart_path] = DrawnKind(metric, chart_type)]
                   ELSE disk
        /\ sessions' = [sessions EXCEPT
               ![s].report_data[i].chart_path = IF ok THEN chart_path ELSE @,
               ![s].idx = IF i < Len(Session(s).report_data) THEN i + 1 ELSE i,
               ![s].pc = IF i < Len(Session(s).report_data) THEN "render" ELSE "assemble"]
    /\ SessionUnchanged

\* the assembly of the document by session s (lines 173-176)
SessAssemble(s) ==
    /\ Session(s).pc = "assemble"
    /\ disk' = [disk EXCEPT !.documents[ReportPathOf(s)] =
                   [ sections |-> create_pdf_report_with_charts(Session(s).report_data,
                                                                disk.charts),
                     writer   |-> s ]]
    /\ sessions' = [sessions EXCEPT
           ![s].final_pdf = ReportPathOf(s),
           ![s].pc = IF Session(s).send THEN "send" ELSE "idle"]
    /\ SessionUnchanged

\* the send of session s opens the file at its final_pdf (lines 185, 68-69)
SessSendReturn(s) ==
    /\ Session(s).pc = "send"
    /\ sessions' = [sessions EXCEPT
           ![s].sent = <<disk.documents[Session(s).final_pdf]>>,
           ![s].pc = "idle",
           ![s].send = FALSE]
    /\ UNCHANGED disk
    /\ SessionUnchanged

SharedNext ==
    \E s \in Sessions :
        \/ SessGenerate(s)
        \/ SessRerun(s)
        \/ SessPressSendEmail(s)
        \/ SessRender(s)
        \/ SessAssemble(s)
        \/ SessSendReturn(s)

SpecShared == Init /\ [][SharedNext]_vars

----------------------------------------------------------------------------
\* Properties of the Learning Insights Arena view (SpecArena)

Failed(c) == ~c.out.ok
RateLimited(c) == ~c.out.ok /\ HasRateLimit(c.out.val)
Shows(kind) == \E i \in DOMAIN shown : shown[i].kind = kind
ShowsText(kind, text) == \E i \in DOMAIN shown : shown[i] = Show(kind, text)

\* the labels of the entries of a summary text, in order
RECURSIVE EntryLabels(_)
EntryLabels(text) ==
    IF text = <<>> THEN <<>>
    ELSE IF Head(text) = "###" /\ Len(text) >= 2
         THEN <<text[2]>> \o EntryLabels(Tail(Tail(text)))
         ELSE EntryLabels(Tail(text))

\* the summary that has, for the first n catalog labels in order, the
\* answer of the label's agent call or the placeholder for its failure
RECURSIVE ExpectedSummary(_)
ExpectedSummary(n) ==
    IF n = 0 THEN <<>>
    ELSE ExpectedSummary(n - 1)
         \o <<"###", Catalog[n].label>>
         \o (IF calls[n].out.ok
             THEN calls[n].out.val
             ELSE <<"[Skipped due to error:">> \o calls[n].out.val \o <<"]">>)

BatchFinished ==
    \/ action = "Generate All" /\ pc = "idle"
    \/ action = "Send Email Now" /\ pc # "daily_batch"

\* C1: when the batch of "Generate All" or of daily_auto_email has run, the
\* summary holds exactly one entry per catalog label, in catalog order; the
\* entry of a failed item is the "Skipped due to error" placeholder, the
\* entry of any other item is the agent's answer; "Generate All" stores and
\* displays that summary.
C1_BatchOneEntryPerLabel ==
    BatchFinished =>
        /\ Len(calls) >= Len(Catalog)
        /\ \A i \in DOMAIN Catalog : calls[i].prompt = InsightPrompt(Catalog[i].text)
        /\ EntryLabels(full_summary) = [i \in DOMAIN Catalog |-> Catalog[i].label]
        /\ full_summary = ExpectedSummary(Len(Catalog))
        /\ action = "Generate All" =>
              /\ all_insights = full_summary
              /\ ShowsText("text_area", full_summary)
              /\ ~Shows("error")

C1_Witness ==
    /\ action = "Generate All"
    /\ pc = "idle"
    /\ Failed(calls[1])
    /\ ~Failed(calls[Len(Catalog)])

\* C2: in one "Ask AI" action the agent is invoked at most twice; after a
\* rate-limit failure of the first attempt the same prompt is resubmitted
\* exactly once; when the resubmission fails too the action ends with two
\* attempts, no answer displayed and the failure shown as an error.
C2_AskAtMostTwice ==
    action = "Ask AI" =>
        /\ Len(calls) <= 2
        /\ (pc = "idle" /\ Len(calls) >= 1 /\ RateLimited(calls[1])) =>
              /\ Len(calls) = 2
              /\ calls[2].prompt = calls[1].prompt
              /\ calls[2].model = calls[1].model
        /\ (Len(calls) = 2 /\ Failed(calls[2])) =>
              /\ pc = "idle"
              /\ ~Shows("text_area")
              /\ ~Shows("download")
              /\ ShowsText("error", <<"Smart Q&A Error:">> \o calls[2].out.val)

C2_Witness ==
    /\ action = "Ask AI"
    /\ pc = "idle"
    /\ Len(calls) = 2
    /\ RateLimited(calls[1])
    /\ RateLimited(calls[2])

FirstAttempt(i) == i = 1 \/ calls[i - 1].prompt # calls[i].prompt

\* C3 as stated: in every flow a first attempt that fails with a rate-limit
\* failure is followed by one resubmission of the same prompt.
C3_RetryInEveryFlow ==
    pc = "idle" =>
        \A i \in DOMAIN calls :
            (FirstAttempt(i) /\ RateLimited(calls[i])) =>
                /\ i + 1 \in DOMAIN calls
                /\ calls[i + 1].prompt = calls[i].prompt

\* C3 as amended: the retry is a policy of the "Ask AI" handler and not of
\* the adapter.  In "Ask AI" a rate-limited first attempt is followed by
\* exactly one resubmission of the same prompt; in every other flow no
\* prompt is ever submitted twice, and a rate-limited attempt is reported as
\* an error (single insight, podcasts, daily summary) or replaced by the
\* placeholder (batch items) after that one attempt.
C3_RetryOnlyInAskAI ==
    /\ (action = "Ask AI" /\ pc = "idle" /\ Len(calls) >= 1 /\ RateLimited(calls[1])) =>
          /\ Len(calls) = 2
          /\ calls[2].prompt = calls[1].prompt
          /\ trail = <<"agent", "sleep(20)", "agent">>
    /\ action # "Ask AI" =>
          /\ \A i, j \in DOMAIN calls : i # j => calls[i].prompt # calls[j].prompt
          /\ \A i \in DOMAIN calls : trail[i] = "agent"
          /\ (action \in {"Generate Insight", "Generate Podcast", "Generate Full Podcast"}
              /\ pc = "idle" /\ Len(calls) >= 1 /\ RateLimited(calls[1])) =>
                 /\ Len(calls) = 1
                 /\ Shows("error")
          /\ (action \in {"Generate All", "Send Email Now"} /\ BatchFinished) =>
                 \A i \in DOMAIN Catalog :
                     RateLimited(calls[i]) =>
                         \E k \in DOMAIN full_summary :
                             SubSeq(full_summary, k, k + 1)
                                 = <<Catalog[i].label, "[Skipped due to error:">>

C3_Witness ==
    /\ action = "Generate Insight"
    /\ pc = "idle"
    /\ Len(calls) = 1
    /\ RateLimited(calls[1])
    /\ Shows("error")

\* C4: when the first attempt of "Ask AI" fails with a failure that does
\* not match the rate-limit signature, the action ends after that single
\* attempt, with the failure shown as an error and no answer displayed.
C4_AskOtherFailureNotRetried ==
    (action = "Ask AI" /\ Len(calls) >= 1
     /\ Failed(calls[1]) /\ ~(\E i \in DOMAIN calls[1].out.val :
                                    calls[1].out.val[i] = "Rate limit")) =>
        /\ pc = "idle"
        /\ Len(calls) = 1
        /\ trail = <<"agent">>
        /\ ShowsText("error", <<"Smart Q&A Error:">> \o calls[1].out.val)
        /\ ~Shows("text_area")
        /\ ~Shows("download")
        /\ ~Shows("warning")

C4_Witness ==
    /\ action = "Ask AI"
    /\ pc = "idle"
    /\ Len(calls) = 1
    /\ Failed(calls[1])
    /\ ~RateLimited(calls[1])

----------------------------------------------------------------------------
\* Properties of the dashboard view (SpecDash) and of delivery (SpecMail)

\* C5 as stated: when an agent call of a user action has failed, the action
\* ends with an error on the page and with last_insight, all_insights,
\* report_data and final_pdf equal to what they were when it started.
C5_FailedActionRestoresState ==
    [][ (pc # "idle" /\ pc' = "idle" /\ \E i \in DOMAIN calls' : ~calls'[i].out.ok) =>
            /\ <<last_insight', all_insights', report_data', final_pdf'>> = pre
            /\ \E i \in DOMAIN shown' : shown'[i].kind \in {"error", "exception"}
      ]_vars

\* a run of the dashboard view that has come to the pass (no agent call of
\* its handler failed) and has ended
PassDone ==
    /\ action \in {"Generate Insights & Charts", "Send Email", "Change chart type", "Rerun"}
    /\ pc \in {"idle", "dash_send"}
    /\ \A i \in DOMAIN calls : calls[i].out.ok
    /\ report_data # <<>>

Count(seq, x) == Cardinality({i \in DOMAIN seq : seq[i] = x})

\* C6: a chart failure in a pass is reported for its metric only: the pass
\* attempts every entry of report_data once, every entry has either its
\* image (freshly written at its path, in its current chart type) or its
\* failure message on the page, and the document is assembled from all
\* entries and its path stored in final_pdf.
C6_ChartFailureIsolated ==
    PassDone =>
        /\ Count(trail, "chart") = Len(report_data)
        /\ \A i \in DOMAIN report_data :
              LET m == report_data[i].metric IN
              \/ /\ ShowsText("image", ChartPath(m))
                 /\ ~ShowsText("error", <<"Chart generation failed for", m>>)
                 /\ report_data[i].chart_path = ChartPath(m)
                 /\ chart_files[ChartPath(m)] = DrawnKind(m, report_data[i].chart_type)
              \/ /\ ShowsText("error", <<"Chart generation failed for", m>>)
                 /\ ~ShowsText("image", ChartPath(m))
        /\ final_pdf = ReportPath
        /\ Len(document) = Len(report_data)
        /\ \A i \in DOMAIN report_data :
              /\ document[i].metric = report_data[i].metric
              /\ document[i].insight = report_data[i].insight
        /\ ShowsText("download", <<ReportPath>>)

C6_Witness ==
    /\ PassDone
    /\ Len(report_data) = 2
    /\ ShowsText("error", <<"Chart generation failed for", report_data[1].metric>>)
    /\ ShowsText("image", ChartPath(report_data[2].metric))
    /\ final_pdf = ReportPath

\* C7: a delivery function never leaves by an exception; when a step of the
\* call fails it returns FALSE and displays the error, having done only the
\* steps before the failing one; it returns TRUE only when every step of the
\* call, the last being sendmail, has completed.
C7_DeliveryNeverRaises ==
    \A i \in DOMAIN mail :
        LET r == mail[i]
            failing == \E k \in DOMAIN r.steps : r.steps[k] = r.fail
        IN
        /\ ~r.raised
        /\ failing =>
              /\ r.ret = FALSE
              /\ r.shown = <<Show("error", <<"Email Error:", r.fail>>)>>
              /\ \A k \in DOMAIN r.done : r.done[k] # r.fail
              /\ r.done # r.steps
        /\ r.ret = TRUE =>
              /\ ~failing
              /\ r.done = r.steps
              /\ r.done[Len(r.done)] = "sendmail"
              /\ r.shown = <<>>
        /\ r.ret \/ failing

C7_Witness ==
    /\ Len(mail) = 2
    /\ mail[1].fn = "send_email_with_attachments"
    /\ mail[1].fail = "getenv"
    /\ mail[1].ret = FALSE
    /\ mail[2].fn = "send_email_with_pdf"
    /\ mail[2].ret = TRUE

\* C8: whatever the recurrence, a run sends at most once, and only a run
\* started by pressing "Send Email" sends at all; the acknowledgment of a
\* recurrence is shown exactly when that run's send succeeded and the
\* recurrence is not "No", and it follows the success message.
C8_RecurrenceSendsOnce ==
    /\ Len(mail) <= 1
    /\ (mail # <<>> \/ pc = "dash_send") => (action = "Send Email" /\ ui.send)
    /\ \A f \in Recurrences :
          ShowsText("info", <<"Scheduled for", f, "(Scheduler backend required.)">>) <=>
              /\ f # "No"
              /\ action = "Send Email"
              /\ ui.freq = f
              /\ Len(mail) = 1
              /\ mail[1].ret
    /\ Shows("info") =>
          /\ Len(shown) >= 2
          /\ shown[Len(shown)].kind = "info"
          /\ shown[Len(shown) - 1] = Show("success", <<"Email sent.">>)

C8_Witness ==
    /\ action = "Send Email"
    /\ pc = "idle"
    /\ ui.freq = "Weekly"
    /\ Len(mail) = 1
    /\ mail[1].ret
    /\ ShowsText("info", <<"Scheduled for", "Weekly", "(Scheduler backend required.)">>)

----------------------------------------------------------------------------
\* Properties of render_chart (SpecEnrolled, SpecMonthly)

EnrolledChart == chart.drawn # "nothing" /\ chart.metric = "Currently Enrolled"
Courses == {df[i].course : i \in DOMAIN df}
\* the records of a course without a completion date
Enrolled(course) == {i \in DOMAIN df : df[i].course = course /\ df[i].completion = NaT}
Charted == {chart.data[i].k : i \in DOMAIN chart.data}

\* C9 (as stated): the 'Currently Enrolled' chart counts a record if and only
\* if its completion date is null: every course with such records has an
\* entry, and the entry's count is the number of the course's records
\* without a completion date, whatever their registration date.
C9_EnrolledCountsIffNull ==
    EnrolledChart =>
        /\ \A c \in Courses : Enrolled(c) # {} => c \in Charted
        /\ \A i \in DOMAIN chart.data :
              chart.data[i].v = Cardinality(Enrolled(chart.data[i].k))

\* C9 (amended): every entry of the 'Currently Enrolled' chart counts the
\* records of a named course without a completion date, whatever their
\* registration date, and no others; at most five courses have an entry,
\* and a named course with such records has none only if five courses with
\* at least as many do.
C9_EnrolledCountsIffNullAmongKept ==
    EnrolledChart =>
        /\ \A i \in DOMAIN chart.data :
              /\ chart.data[i].k # NoName
              /\ chart.data[i].v > 0
              /\ chart.data[i].v = Cardinality(Enrolled(chart.data[i].k))
        /\ Len(chart.data) <= TopN
        /\ Cardinality(Charted) = Len(chart.data)
        /\ \A c \in Courses \ Charted :
              Enrolled(c) # {} /\ c # NoName =>
                  /\ Len(chart.data) = TopN
                  /\ \A i \in DOMAIN chart.data :
                        chart.data[i].v >= Cardinality(Enrolled(c))

\* more courses with records without a completion date than the chart keeps,
\* next to a completed record
C9_Witness ==
    /\ EnrolledChart
    /\ Cardinality({c \in Courses \ {NoName} : Enrolled(c) # {}}) > TopN
    /\ \E i \in DOMAIN df : df[i].completion # NaT /\ df[i].registration # NaT
    /\ \E i \in DOMAIN df : df[i].completion = NaT /\ df[i].registration = NaT

VarianceChart ==
    chart.drawn # "nothing" /\ chart.metric = "Completion variance to previous month"
CompletionMonths == {df[i].completion : i \in DOMAIN df} \ {NaT}
Completions(month) == Cardinality({i \in DOMAIN df : df[i].completion = month})

\* C10: the variance series has one value per month of the monthly
\* completion series, in the order of the months; its first value is 0 and
\* every later value is that month's count minus the count of the month
\* before it in the series.
C10_VarianceIsFirstDifference ==
    VarianceChart =>
        /\ Len(chart.data) = Cardinality(CompletionMonths)
        /\ \A i \in DOMAIN chart.data :
              /\ chart.data[i].k \in CompletionMonths
              /\ i = 1 => chart.data[i].v = 0
              /\ i > 1 =>
                    /\ chart.data[i - 1].k < chart.data[i].k
                    /\ chart.data[i].v = Completions(chart.data[i].k)
                                         - Completions(chart.data[i - 1].k)

\* a series of two months whose counts differ
C10_Witness ==
    /\ VarianceChart
    /\ Len(chart.data) = 2
    /\ chart.data[1].v = 0
    /\ chart.data[2].v < 0

TrendMetric == "Number of employees registered vs completed (monthly trend)"
TrendChart == chart.drawn # "nothing" /\ chart.metric = TrendMetric

\* series is the monthly series of a date column: one entry per month that
\* occurs in the column, by ascending month, with the month's number of rows
IsMonthlySeries(series, column) ==
    /\ Len(series) = Cardinality({df[i][column] : i \in DOMAIN df} \ {NaT})
    /\ \A i \in DOMAIN series :
          /\ series[i].k # NaT
          /\ series[i].v = Cardinality({j \in DOMAIN df : df[j][column] = series[i].k})
          /\ series[i].v > 0
          /\ i > 1 => series[i - 1].k < series[i].k

\* C11: for the monthly trend metric every chart style gives the same
\* result for the same table: the dual-line plot of the monthly
\* registration series and the monthly completion series.
C11_TrendIgnoresStyle ==
    TrendChart =>
        /\ chart.drawn = "DualLine"
        /\ ~chart.raised
        /\ IsMonthlySeries(chart.Registered, "registration")
        /\ IsMonthlySeries(chart.Completed, "completion")
        /\ \A t \in ChartTypeSet :
              render_chart(TrendMetric, t, df, {})
                  = render_chart(TrendMetric, "Line", df, {})

\* the trend rendered with the style "Pie" from a table whose two monthly
\* series differ
C11_Witness ==
    /\ TrendChart
    /\ chart.chart_type = "Pie"
    /\ chart.Registered # <<>>
    /\ chart.Completed # <<>>
    /\ chart.Registered # chart.Completed

----------------------------------------------------------------------------
\* Further properties of delivery (SpecMail, SpecArena)

\* the parts of the message send_email_with_attachments is to build
ExpectedParts(r) ==
    <<"text">>
    \o (IF r.audio_path # NoPath THEN <<"audio">> ELSE <<>>)
    \o (IF r.pdf_path # NoPath THEN <<"pdf">> ELSE <<>>)

\* the call came to the end of building its message
MessageBuilt(r) == r.fail \notin {"getenv", "open_audio", "open_pdf"}

\* C12: the message built by send_email_with_attachments has the text body
\* as its first part, then one audio part if and only if an audio path is
\* given, then one document part if and only if a document path is given;
\* with neither it has the text body alone.  (A call that fails while
\* building has attached the parts before the failing step only.)
C12_MessageParts ==
    \A i \in DOMAIN mail :
        LET r == mail[i] IN
        r.fn = "send_email_with_attachments" =>
            /\ MessageBuilt(r) => r.parts = ExpectedParts(r)
            /\ r.ret => r.parts = ExpectedParts(r)
            /\ Len(r.parts) <= Len(ExpectedParts(r))
            /\ r.parts = SubSeq(ExpectedParts(r), 1, Len(r.parts))
            /\ (r.audio_path = NoPath /\ r.pdf_path = NoPath /\ MessageBuilt(r)) =>
                  r.parts = <<"text">>

\* a message sent without attachments and one sent with both
C12_Witness ==
    /\ Len(mail) = 2
    /\ mail[1].fn = "send_email_with_attachments"
    /\ mail[1].audio_path = NoPath /\ mail[1].pdf_path = NoPath
    /\ mail[1].ret /\ mail[1].parts = <<"text">>
    /\ mail[2].fn = "send_email_with_attachments"
    /\ mail[2].ret /\ mail[2].parts = <<"text", "audio", "pdf">>

----------------------------------------------------------------------------
\* Further properties of the dashboard view (SpecDash)

\* the handler of "Generate Insights & Charts" has made all its agent calls
GenerateDone ==
    /\ action = "Generate Insights & Charts"
    /\ ui.selected # <<>>
    /\ Len(calls) = Len(ui.selected)
    /\ \A i \in DOMAIN calls : calls[i].out.ok

\* ... and the pass of its run has not begun
HandlerJustDone == GenerateDone /\ pc = "render" /\ idx = 1 /\ Count(trail, "chart") = 0

C14_OneSectionPerEntry ==
    PassDone =>
        /\ DOMAIN document = DOMAIN report_data
        /\ \A i \in DOMAIN document :
              /\ document[i].metric = report_data[i].metric
              /\ document[i].insight = report_data[i].insight
        /\ \A i, j \in DOMAIN document :
              document[i].metric = document[j].metric => i = j
        /\ document = create_pdf_report_with_charts(report_data, chart_files)

\* a document of two sections in an order other than that of the metrics
\* list, the first of them without a chart
C14_Witness ==
    /\ PassDone
    /\ Len(document) = 2
    /\ document[1].metric = Metrics[2]
    /\ document[2].metric = Metrics[1]
    /\ report_data[1].chart_path = NoChart
    /\ report_data[2].chart_path # NoChart

\* C15: a section of the assembled document has a chart image if and only
\* if its entry's chart path is set and a file is at that path; an entry
\* without a chart path gives a text-only section even when a chart file of
\* the metric's name is in the working directory.
C15_ImageIffPathAndFile ==
    PassDone =>
        \A i \in DOMAIN report_data :
            /\ i \in DOMAIN document
            /\ document[i].image # "none" <=>
                  /\ report_data[i].chart_path # NoChart
                  /\ chart_files[report_data[i].chart_path] # "none"
            /\ document[i].image # "none" =>
                  document[i].image = chart_files[report_data[i].chart_path]
            /\ report_data[i].chart_path = NoChart => document[i].image = "none"

\* an entry without a chart path while the chart file of an earlier report
\* is still there, next to an entry with its chart
C15_Witness ==
    /\ PassDone
    /\ \E i \in DOMAIN report_data :
          /\ report_data[i].chart_path = NoChart
          /\ chart_files[ChartPath(report_data[i].metric)] # "none"
          /\ document[i].image = "none"
    /\ \E i \in DOMAIN report_data : document[i].image # "none"

----------------------------------------------------------------------------
\* Further properties of the Learning Insights Arena view (SpecArena)

\* the steps of daily_auto_email, in order: one agent call per catalog
\* label, the podcast summarization, the narration, the document, the send
DailySteps ==
    [i \in DOMAIN Catalog |-> "agent"] \o <<"agent", "tts", "pdf", "send">>

\* C16: in the daily flow the steps happen in the order batch insights,
\* podcast summarization, narration synthesis, document assembly, send; the
\* email is attempted at most once, only after the four earlier steps have
\* completed, with both the audio and the document attached; when a step
\* before the send fails no email is attempted and an error is shown.
C16_DailyFlowOrder ==
    action = "Send Email Now" =>
        /\ Len(trail) <= Len(DailySteps)
        /\ trail = SubSeq(DailySteps, 1, Len(trail))
        /\ Len(mail) <= 1
        /\ Len(calls) > Len(Catalog) =>
              calls[Len(Catalog) + 1].prompt = DailyPodcastPrompt(full_summary)
        /\ (mail # <<>> \/ pc = "daily_send") =>
              /\ Len(trail) >= Len(DailySteps) - 1
              /\ Len(calls) = Len(Catalog) + 1
              /\ calls[Len(calls)].out.ok
              /\ ~Shows("error") \/ pc = "idle"
        /\ mail # <<>> =>
              /\ trail = DailySteps
              /\ pc = "idle"
              /\ mail[1].fn = "send_email_with_attachments"
              /\ mail[1].audio_path = "auto_podcast.mp3"
              /\ mail[1].pdf_path = "auto_insights.pdf"
              /\ MessageBuilt(mail[1]) => mail[1].parts = <<"text", "audio", "pdf">>
              /\ mail[1].ret <=> ShowsText("success", <<"Email sent successfully.">>)
        /\ (pc = "idle" /\ mail = <<>>) =>
              /\ Shows("error")
              /\ ~Shows("success")
              /\ Count(trail, "send") = 0

\* an email sent by the daily flow whose batch had a failed item
C16_Witness ==
    /\ action = "Send Email Now"
    /\ pc = "idle"
    /\ trail = DailySteps
    /\ Failed(calls[1])
    /\ mail[1].ret
    /\ mail[1].parts = <<"text", "audio", "pdf">>

----------------------------------------------------------------------------
\* Properties of two sessions in one working directory (SpecShared)

\* the sections are those of the report map rd: its metrics and insights
SectionsOf(sections, rd) ==
    /\ Len(sections) = Len(rd)
    /\ \A i \in DOMAIN rd :
          /\ sections[i].metric = rd[i].metric
          /\ sections[i].insight = rd[i].insight

\* C17: the document's file name depends on the report name only, not on
\* the session: every session's final_pdf, once set, is the same path, and
\* what a session's "Send Email" sends is the document the last pass of
\* any session wrote there - its own report when it was the last writer,
\* the other session's report otherwise.
C17_SessionsShareFiles ==
    \A s \in Sessions :
        /\ Session(s).final_pdf \in {NoPath, ReportPath}
        /\ \A t \in Sessions :
              (Session(s).final_pdf # NoPath /\ Session(t).final_pdf # NoPath) =>
                  Session(s).final_pdf = Session(t).final_pdf
        /\ Session(s).sent # <<>> =>
              LET d == Session(s).sent[1] IN
              /\ d.writer \in Sessions
              /\ Session(d.writer).final_pdf # NoPath
              /\ d.writer = s => SectionsOf(d.sections, Session(s).report_data)
              /\ \A i \in DOMAIN d.sections : d.sections[i].insight = AnswerTo(d.writer)

\* session A has sent, from the path in its final_pdf, a document written
\* from the report entries of session B
C17_Witness ==
    /\ Session("A").final_pdf = ReportPath
    /\ Session("A").sent # <<>>
    /\ Session("A").sent[1].writer = "B"
    /\ Session("A").report_data # <<>>
    /\ ~SectionsOf(Session("A").sent[1].sections, Session("A").report_data)
    /\ SectionsOf(Session("A").sent[1].sections, Session("B").report_data)

----------------------------------------------------------------------------
\* Prompts and stored answers of the arena view (SpecArena)

AnalyzePrefix == "Analyze the dataset and return this insight:"
AnalystPrefix ==
    "You are an AI analyst. Based on the dataset, answer the following question in 5 lines maximum:"

\* C18 as stated: in the single-insight, batch and free-form flows every
\* text submitted to the agent is the prefix "Analyze the dataset and
\* return this insight:" followed by the catalog prompt or by the user's
\* free text.
C18_AnalyzePrefixInEveryFlow ==
    action \in {"Generate Insight", "Generate All", "Ask AI"} =>
        \A i \in DOMAIN calls :
            /\ Len(calls[i].prompt) = 2
            /\ calls[i].prompt[1] = AnalyzePrefix

\* the summary has the entry of the label with this text
HasEntry(summary, label, text) ==
    \E k \in DOMAIN summary :
        SubSeq(summary, k, k + 1 + Len(text)) = <<"###", label>> \o text

C18_Framing ==
    /\ action = "Generate Insight" =>
          /\ \A i \in DOMAIN calls :
                calls[i].prompt = <<AnalyzePrefix, Catalog[idx].text>>
          /\ (pc = "idle" /\ calls[Len(calls)].out.ok) =>
                /\ ShowsText("text_area", calls[Len(calls)].out.val)
                /\ last_insight = calls[Len(calls)].out.val
    /\ action = "Generate All" =>
          /\ \A i \in DOMAIN calls :
                calls[i].prompt = <<AnalyzePrefix, Catalog[i].text>>
          /\ pc = "idle" =>
                /\ \A i \in DOMAIN calls :
                      calls[i].out.ok =>
                          HasEntry(all_insights, Catalog[i].label, calls[i].out.val)
                /\ ShowsText("text_area", all_insights)
    /\ action = "Ask AI" =>
          /\ \A i \in DOMAIN calls :
                /\ Len(calls[i].prompt) = 2
                /\ calls[i].prompt[1] = AnalystPrefix
                /\ calls[i].prompt[2] \in Questions \ {""}
          /\ (pc = "idle" /\ calls # <<>> /\ calls[Len(calls)].out.ok) =>
                ShowsText("text_area", calls[Len(calls)].out.val)

\* C18 as amended: the single-insight and batch flows submit the prefix
\* "Analyze the dataset and return this insight:" followed by the catalog
\* prompt of the label concerned; the free-form flow submits the analyst
\* framing "You are an AI analyst. ..." followed by the user's text.  The
\* answer is displayed unmodified in all three; it is stored unmodified in
\* last_insight (single) or under its label in all_insights (batch), and
\* the free-form flow stores nothing.
C18_PromptFramingPerFlow ==
    /\ []C18_Framing
    /\ [][action' = "Ask AI" => UNCHANGED <<last_insight, all_insights>>]_vars

\* a free-form question answered and displayed
C18_Witness ==
    /\ action = "Ask AI"
    /\ pc = "idle"
    /\ Len(calls) = 1
    /\ calls[1].out.ok
    /\ calls[1].prompt = <<AnalystPrefix, "Q1">>
    /\ ShowsText("text_area", calls[1].out.val)
    /\ last_insight # calls[1].out.val

\* the step is the return of a successful single-insight generation
InsightSucceeds ==
    /\ pc = "insight_call"
    /\ pc' = "idle"
    /\ calls'[Len(calls')].out.ok

C19_PodcastPrompts ==
    /\ last_insight # Absent => last_insight \in Responses
    /\ action = "Generate Podcast" =>
          /\ last_insight # Absent
          /\ Len(calls) <= 1
          /\ \A i \in DOMAIN calls :
                calls[i].prompt =
                    <<"Convert this into a 60-second podcast summary:">> \o last_insight

\* C19: last_insight is changed only by a successful "Generate Insight" and
\* then holds that action's agent response; every other step (a failed
\* generation, a batch, a free-form question, a podcast, the daily flow)
\* leaves it as it is; the single-insight podcast is requested only when
\* last_insight is set and its prompt embeds last_insight, which is the
\* response of the most recent successful single-insight generation.
C19_LastInsight ==
    /\ []C19_PodcastPrompts
    /\ [][ /\ InsightSucceeds => last_insight' = calls'[Len(calls')].out.val
           /\ ~InsightSucceeds => last_insight' = last_insight
         ]_vars

\* the podcast of an insight requested after a later generation has failed
C19_Witness ==
    /\ action = "Generate Podcast"
    /\ pc = "idle"
    /\ Len(calls) = 1
    /\ calls[1].prompt = <<"Convert this into a 60-second podcast summary:", "R2">>
    /\ calls[1].out.ok
    /\ Shows("success")

----------------------------------------------------------------------------
\* The document behind "Send Email" (SpecDash)

\* "Send Email" is on the page, or its send is under way
SendEmailAvailable ==
    /\ final_pdf # NoPath
    /\ pc \in {"idle", "dash_send"}
    /\ ~Aborted

\* C20 as stated: whenever "Send Email" is available the document at
\* final_pdf has exactly the metrics and insight texts that report_data
\* holds.
C20_DocumentIsCurrentReport ==
    SendEmailAvailable => SectionsOf(document, report_data)

\* C21 as stated: in the document a pass assembles, a section has a chart
\* only if the metric's chart was rendered and saved in that same pass, in
\* the metric's current chart style; a metric whose rendering failed in the
\* pass has a text-only section.
C21_ChartOnlyFromSamePass ==
    PassDone =>
        \A i \in DOMAIN document :
            LET m == report_data[i].metric IN
            /\ document[i].image # "none" =>
                  /\ ShowsText("image", ChartPath(m))
                  /\ document[i].image = DrawnKind(m, report_data[i].chart_type)
            /\ ShowsText("error", <<"Chart generation failed for", m>>) =>
                  document[i].image = "none"

============================================================================
